---- MODULE Spec2Model ----
(***************************************************************************)
(* Playmaker: the Judge agent (heuristic evaluator, response parser,       *)
(* data-to-verdict normalisation, directory evaluation) and the workflow   *)
(* orchestrator (plan -> generate -> judge -> heal).                       *)
(*                                                                         *)
(* Python values are tagged records: None, bool, int, str, list, dict.     *)
(* A str is a sequence of text pieces (single characters, or lexemes that  *)
(* stand for a run of characters).                                         *)
(***************************************************************************)
EXTENDS Integers, Sequences, FiniteSets, TLC

VARIABLES
    pc,          \* position of the running coroutine / of the function under study
    mode,        \* "pgj" = workflow_plan_generate_judge, "full" = workflow_full
    threshold,   \* PlaymakerOrchestrator.judge_threshold
    hasSdk,      \* judge.HAS_SDK
    dirExists,   \* tests_dir.exists()
    files,       \* contents of the discovered test files, in discovery order
    verdicts,    \* evaluate_directory's results, in insertion order
    service,     \* per file: the number of _query_claude calls and what the call did
    results,     \* the workflow's result list
    invoked,     \* agents run through run_playwright_agent, in order
    input,       \* argument of the function under study (pure-function specifications)
    output       \* its outcome

vars == <<pc, mode, threshold, hasSdk, dirExists, files, verdicts, service,
          results, invoked, input, output>>

----------------------------------------------------------------------------
(* Python values *)

None == [t |-> "null"]
PyBool(b) == [t |-> "bool", b |-> b]
PyInt(n) == [t |-> "int", n |-> n]
PyStr(s) == [t |-> "str", s |-> s]
PyList(l) == [t |-> "list", l |-> l]
PyDict(d) == [t |-> "dict", d |-> d]

EmptyDict == [k \in {} |-> None]

\* bool(v)
Truthy(v) ==
    CASE v.t = "null" -> FALSE
      [] v.t = "bool" -> v.b
      [] v.t = "int"  -> v.n # 0
      [] v.t = "str"  -> Len(v.s) > 0
      [] v.t = "list" -> Len(v.l) > 0
      [] v.t = "dict" -> DOMAIN v.d # {}

\* dict.get(key, default)
DictGet(data, key, default) ==
    IF key \in DOMAIN data.d THEN data.d[key] ELSE default

Ok(v) == [kind |-> "ok", val |-> v]
Raise(e) == [kind |-> "raise", exc |-> e]

----------------------------------------------------------------------------
(* Text helpers *)

UpperCase == <<"A","B","C","D","E","F","G","H","I","J","K","L","M",
               "N","O","P","Q","R","S","T","U","V","W","X","Y","Z">>
LowerCase == <<"a","b","c","d","e","f","g","h","i","j","k","l","m",
               "n","o","p","q","r","s","t","u","v","w","x","y","z">>

LowerChar(c) ==
    IF \E i \in 1..Len(UpperCase) : UpperCase[i] = c
    THEN LowerCase[CHOOSE i \in 1..Len(UpperCase) : UpperCase[i] = c]
    ELSE c

\* str.lower()
Lower(s) == [i \in 1..Len(s) |-> LowerChar(s[i])]

\* needle in hay
Contains(needle, hay) ==
    \E i \in 1..(Len(hay) - Len(needle) + 1) :
        SubSeq(hay, i, i + Len(needle) - 1) = needle

\* s[:n]
Prefix(s, n) == SubSeq(s, 1, IF Len(s) < n THEN Len(s) ELSE n)

\* s.count(x) for a one-piece pattern
RECURSIVE Count(_, _)
Count(s, x) ==
    IF s = <<>> THEN 0
    ELSE (IF Head(s) = x THEN 1 ELSE 0) + Count(Tail(s), x)

----------------------------------------------------------------------------
(* JudgeVerdict *)

JudgeVerdict(passed, score, issues, suggestions, summary) ==
    [passed |-> passed, score |-> score, issues |-> issues,
     suggestions |-> suggestions, summary |-> summary]

----------------------------------------------------------------------------
(* _fallback_evaluate: test text is a sequence of fragments *)

LocatorId == "page.locator(\"#"
LocatorClass == "page.locator('."
WaitForTimeout == "page.waitForTimeout"
ExpectCall == "expect("
TestDescribe == "test.describe"
TestCall == "test("
OtherText == "await page.goto('/');"

Fragments == {LocatorId, LocatorClass, WaitForTimeout, ExpectCall,
              TestDescribe, TestCall, OtherText}

InText(frag, text) == \E i \in 1..Len(text) : text[i] = frag

FragileSelector(text) == InText(LocatorId, text) \/ InText(LocatorClass, text)
HardcodedWait(text) == InText(WaitForTimeout, text)
NoAssertion(text) == ~InText(ExpectCall, text)
Ungrouped(text) == ~InText(TestDescribe, text) /\ Count(text, TestCall) > 3

HeuristicScore(text) ==
    100 - (IF FragileSelector(text) THEN 20 ELSE 0)
        - (IF HardcodedWait(text) THEN 15 ELSE 0)
        - (IF NoAssertion(text) THEN 30 ELSE 0)
        - (IF Ungrouped(text) THEN 5 ELSE 0)

HeuristicIssues(text) ==
    (IF FragileSelector(text)
     THEN <<PyStr(<<"Uses fragile CSS selectors instead of role/text locators">>)>>
     ELSE <<>>)
    \o (IF HardcodedWait(text) THEN <<PyStr(<<"Uses hardcoded timeouts">>)>> ELSE <<>>)
    \o (IF NoAssertion(text) THEN <<PyStr(<<"No assertions found">>)>> ELSE <<>>)

HeuristicSuggestions(text) ==
    (IF FragileSelector(text)
     THEN <<PyStr(<<"Use getByRole(), getByText(), or getByTestId()">>)>>
     ELSE <<>>)
    \o (IF HardcodedWait(text)
        THEN <<PyStr(<<"Use waitFor conditions instead">>)>> ELSE <<>>)
    \o (IF Ungrouped(text)
        THEN <<PyStr(<<"Consider grouping related tests with test.describe">>)>>
        ELSE <<>>)

Max0(n) == IF n < 0 THEN 0 ELSE n

FallbackPassedStrict(text) == HeuristicScore(text) > 70

FallbackPassed(text) == HeuristicScore(text) >= 70

FallbackEvaluate(text) ==
    JudgeVerdict(PyBool(FallbackPassed(text)),
                 PyInt(Max0(HeuristicScore(text))),
                 PyList(HeuristicIssues(text)),
                 PyList(HeuristicSuggestions(text)),
                 PyStr(<<"Heuristic evaluation: ", ToString(HeuristicScore(text)), "/100">>))

----------------------------------------------------------------------------
(* _data_to_verdict *)

KwExcellent == <<"e","x","c","e","l","l","e","n","t">>
KwGood == <<"g","o","o","d">>
KwFair == <<"f","a","i","r">>
KwAcceptable == <<"a","c","c","e","p","t","a","b","l","e">>
KwPoor == <<"p","o","o","r">>

\* str(i) of a dict: its repr text, kept as one opaque piece
ReprOf(v) == PyStr(<<"{...}">>)

\* v[0]
Index0(v) ==
    CASE v.t = "list" -> IF Len(v.l) > 0 THEN Ok(v.l[1]) ELSE Raise("IndexError")
      [] v.t = "str"  -> IF Len(v.s) > 0 THEN Ok(PyStr(<<v.s[1]>>)) ELSE Raise("IndexError")
      [] v.t = "dict" -> Raise("KeyError")
      [] OTHER        -> Raise("TypeError")

\* [i.get("description", str(i)) for i in v]   (v a list whose first entry is a dict)
Descriptions(v) ==
    IF \E i \in 1..Len(v.l) : v.l[i].t # "dict"
    THEN Raise("AttributeError")
    ELSE Ok(PyList([i \in 1..Len(v.l) |-> DictGet(v.l[i], "description", ReprOf(v.l[i]))]))

\* if v and isinstance(v[0], dict): v = [...]
NormalizeEntries(v) ==
    IF ~Truthy(v) THEN Ok(v)
    ELSE IF Index0(v).kind = "raise" THEN Index0(v)
    ELSE IF Index0(v).val.t = "dict" THEN Descriptions(v)
    ELSE Ok(v)

InferScorePoorFirst(text) ==
    IF Contains(KwPoor, text) THEN 40
    ELSE IF Contains(KwExcellent, text) \/ Contains(KwGood, text) THEN 85
    ELSE IF Contains(KwFair, text) \/ Contains(KwAcceptable, text) THEN 70
    ELSE 50

\* the keyword table applied to the lower-cased verdict text
InferScore(text) ==
    IF Contains(KwExcellent, text) \/ Contains(KwGood, text) THEN 85
    ELSE IF Contains(KwFair, text) \/ Contains(KwAcceptable, text) THEN 70
    ELSE IF Contains(KwPoor, text) THEN 40
    ELSE 50

\* score = data.get("score", 0); if not score: ... infer from data.get("verdict", "")
DetermineScore(data) ==
    LET score == DictGet(data, "score", PyInt(0))
        verdict == DictGet(data, "verdict", PyStr(<<>>))
    IN  IF Truthy(score) THEN Ok(score)
        ELSE IF verdict.t # "str" THEN Raise("AttributeError")
        ELSE Ok(PyInt(InferScore(Lower(verdict.s))))

\* score >= 70
ScoreGe70(score) ==
    CASE score.t = "int"  -> Ok(PyBool(score.n >= 70))
      [] score.t = "bool" -> Ok(PyBool((IF score.b THEN 1 ELSE 0) >= 70))
      [] OTHER            -> Raise("TypeError")

DataToVerdict(data, raw_response) ==
    IF data.t # "dict" THEN Raise("AttributeError")
    ELSE
    LET issues == NormalizeEntries(DictGet(data, "issues", PyList(<<>>)))
        suggestions ==
            NormalizeEntries(DictGet(data, "suggestions",
                                     DictGet(data, "recommendations", PyList(<<>>))))
        score == DetermineScore(data)
        derived == ScoreGe70(score.val)
        summary == DictGet(data, "summary",
                           DictGet(data, "verdict", PyStr(Prefix(raw_response, 100))))
    IN  IF issues.kind = "raise" THEN issues
        ELSE IF suggestions.kind = "raise" THEN suggestions
        ELSE IF score.kind = "raise" THEN score
        ELSE IF derived.kind = "raise" THEN derived
        ELSE Ok(JudgeVerdict(DictGet(data, "passed", derived.val), score.val,
                             issues.val, suggestions.val, summary))

----------------------------------------------------------------------------
(* Response text: a sequence of pieces *)

LBrace == "{"
RBrace == "}"
\* a run of three backquotes is written ''' in the piece names
FenceJson == "'''json"
Fence == "'''"
Quote == "\""
Comma == ","
Newline == "\n"
Prose == "x"
MemberScore150 == "\"score\":150"
KeyIssues == "\"issues\":"

\* complete members "key":value, and their decoded key and value
MemberKey(p) ==
    CASE p = MemberScore150 -> "score"
      [] p = "\"score\":70" -> "score"
      [] p = "\"score\":69" -> "score"
      [] p = "\"score\":40" -> "score"
      [] p = "\"passed\":true" -> "passed"
      [] p = "\"passed\":false" -> "passed"

MemberValue(p) ==
    CASE p = MemberScore150 -> PyInt(150)
      [] p = "\"score\":70" -> PyInt(70)
      [] p = "\"score\":69" -> PyInt(69)
      [] p = "\"score\":40" -> PyInt(40)
      [] p = "\"passed\":true" -> PyBool(TRUE)
      [] p = "\"passed\":false" -> PyBool(FALSE)

Members == {MemberScore150, "\"score\":70", "\"score\":69", "\"score\":40",
            "\"passed\":true", "\"passed\":false"}

\* key prefixes "key": that a value must follow
KeyOf(p) ==
    CASE p = KeyIssues -> "issues"
      [] p = "\"verdict\":" -> "verdict"

Keys == {KeyIssues, "\"verdict\":"}

\* pieces that contain a double-quote character
QuoteBearing == {Quote} \cup Members \cup Keys

----------------------------------------------------------------------------
(* json.loads *)

Fail == [ok |-> FALSE]
Parsed(v, n) == [ok |-> TRUE, val |-> v, next |-> n]

RECURSIVE SkipWs(_, _)
SkipWs(s, i) ==
    IF i <= Len(s) /\ s[i] = Newline THEN SkipWs(s, i + 1) ELSE i

\* the string literal opening at s[i]; a raw newline inside a string is rejected
ParseString(s, i) ==
    LET ends == {j \in (i + 1)..Len(s) : s[j] \in QuoteBearing}
        j == CHOOSE j \in ends : \A k \in ends : j <= k
    IN  IF ends = {} THEN Fail
        ELSE IF s[j] # Quote THEN Fail
        ELSE IF \E k \in (i + 1)..(j - 1) : s[k] = Newline THEN Fail
        ELSE Parsed(PyStr(SubSeq(s, i + 1, j - 1)), j + 1)

Put(d, k, v) == [x \in DOMAIN d \cup {k} |-> IF x = k THEN v ELSE d[x]]

RECURSIVE ParseValue(_, _), ParseMembers(_, _, _)

\* the value starting at s[i]
ParseValue(s, i) ==
    IF i > Len(s) THEN Fail
    ELSE IF s[i] = Quote THEN ParseString(s, i)
    ELSE IF s[i] = LBrace THEN
        LET j == SkipWs(s, i + 1)
        IN  IF j <= Len(s) /\ s[j] = RBrace THEN Parsed(PyDict(EmptyDict), j + 1)
            ELSE ParseMembers(s, j, EmptyDict)
    ELSE Fail

\* one member at s[i], then ',' and more members, or '}'
ParseMembers(s, i, acc) ==
    IF i > Len(s) THEN Fail
    ELSE
    LET m == IF s[i] \in Members
             THEN [ok |-> TRUE, key |-> MemberKey(s[i]), val |-> MemberValue(s[i]),
                   next |-> i + 1]
             ELSE IF s[i] \in Keys
             THEN LET v == ParseValue(s, SkipWs(s, i + 1))
                  IN  IF v.ok
                      THEN [ok |-> TRUE, key |-> KeyOf(s[i]), val |-> v.val,
                            next |-> v.next]
                      ELSE Fail
             ELSE Fail
    IN  IF ~m.ok THEN Fail
        ELSE
        LET d == Put(acc, m.key, m.val)
            j == SkipWs(s, m.next)
        IN  IF j > Len(s) THEN Fail
            ELSE IF s[j] = RBrace THEN Parsed(PyDict(d), j + 1)
            ELSE IF s[j] = Comma THEN ParseMembers(s, SkipWs(s, j + 1), d)
            ELSE Fail

\* json.loads(text): Ok(value), or Raise("JSONDecodeError")
JsonLoads(text) ==
    LET r == ParseValue(text, SkipWs(text, 1))
    IN  IF ~r.ok THEN Raise("JSONDecodeError")
        ELSE IF SkipWs(text, r.next) <= Len(text) THEN Raise("JSONDecodeError")
        ELSE Ok(r.val)

----------------------------------------------------------------------------
(* _parse_verdict *)

IsFence(p) == p = Fence \/ p = FenceJson

\* re.search for a json-labelled fence, lazily closed: the leftmost opening fence
\* that some later fence closes, and the nearest fence closing it
FenceOpen(r) ==
    {i \in 1..Len(r) : r[i] = FenceJson /\ \E j \in (i + 1)..Len(r) : IsFence(r[j])}

RECURSIVE RStrip(_)
RStrip(s) ==
    IF s # <<>> /\ s[Len(s)] = Newline THEN RStrip(SubSeq(s, 1, Len(s) - 1)) ELSE s

\* group(1)
FenceGroup(r) ==
    LET i == CHOOSE i \in FenceOpen(r) : \A k \in FenceOpen(r) : i <= k
        j == CHOOSE j \in (i + 1)..Len(r) :
                 IsFence(r[j]) /\ \A k \in (i + 1)..(j - 1) : ~IsFence(r[k])
    IN  RStrip(SubSeq(r, SkipWs(r, i + 1), j - 1))

\* response.find('{'), 0 for -1
FindBrace(r) ==
    IF \E i \in 1..Len(r) : r[i] = LBrace
    THEN CHOOSE i \in 1..Len(r) : r[i] = LBrace /\ \A k \in 1..(i - 1) : r[k] # LBrace
    ELSE 0

\* brace_count after the pieces start..i
RECURSIVE BraceCount(_, _, _)
BraceCount(r, start, i) ==
    IF i < start THEN 0
    ELSE BraceCount(r, start, i - 1)
         + (IF r[i] = LBrace THEN 1 ELSE IF r[i] = RBrace THEN -1 ELSE 0)

\* the first i at which a '}' brings brace_count to zero, 0 if there is none
ScanEnd(r, start) ==
    LET hits == {i \in start..Len(r) : r[i] = RBrace /\ BraceCount(r, start, i) = 0}
    IN  IF hits = {} THEN 0 ELSE CHOOSE i \in hits : \A k \in hits : i <= k

DegradedVerdict(response) ==
    JudgeVerdict(PyBool(FALSE), PyInt(0),
                 PyList(<<PyStr(<<"Failed to parse judge response">>)>>),
                 PyList(<<>>),
                 PyStr(IF response # <<>> THEN Prefix(response, 200)
                       ELSE <<"No response">>))

\* the balanced-brace strategy; loads lists the texts handed to json.loads so far
BalancedScan(response, loads) ==
    LET start == FindBrace(response)
        end == ScanEnd(response, start)
        text == SubSeq(response, start, end)
    IN  IF start = 0 \/ end = 0
        THEN [out |-> Ok(DegradedVerdict(response)), loads |-> loads]
        ELSE IF JsonLoads(text).kind = "raise"
        THEN [out |-> Ok(DegradedVerdict(response)), loads |-> Append(loads, text)]
        ELSE [out |-> DataToVerdict(JsonLoads(text).val, response),
              loads |-> Append(loads, text)]

\* out: the JudgeVerdict returned, or the exception that leaves _parse_verdict
ParseVerdict(response) ==
    IF FenceOpen(response) # {}
    THEN LET text == FenceGroup(response)
         IN  IF JsonLoads(text).kind = "raise"
             THEN BalancedScan(response, <<text>>)
             ELSE [out |-> DataToVerdict(JsonLoads(text).val, response),
                   loads |-> <<text>>]
    ELSE BalancedScan(response, <<>>)

----------------------------------------------------------------------------
(* Bounds and input sets *)

MaxLen == 4        \* longest response, in pieces
MaxContent == 6    \* longest test text, in fragments

SeqsUpTo(S, n) == UNION {[1..k -> S] : k \in 0..n}

Alphabet == {LBrace, RBrace, FenceJson, Fence, Quote, Comma, Newline, Prose,
             MemberScore150, KeyIssues}

Responses == SeqsUpTo(Alphabet, MaxLen)

\* OtherText triggers no rule: a text with it scores as the text without it
Contents == SeqsUpTo(Fragments \ {OtherText}, MaxContent)

\* the workflow variables, idle while a single function is under study
WorkflowIdle ==
    /\ mode = "none"
    /\ threshold = 70
    /\ hasSdk = TRUE
    /\ dirExists = FALSE
    /\ files = <<>>
    /\ verdicts = <<>>
    /\ service = <<>>
    /\ results = <<>>
    /\ invoked = <<>>

WorkflowUnchanged ==
    UNCHANGED <<mode, threshold, hasSdk, dirExists, files, verdicts, service,
                results, invoked>>

----------------------------------------------------------------------------
(* SpecParse: _parse_verdict applied to every response of at most MaxLen pieces *)

InitParse ==
    /\ WorkflowIdle
    /\ pc = "call"
    /\ input \in Responses
    /\ output = None

ParseVerdictCall ==
    /\ pc = "call"
    /\ output' = ParseVerdict(input)
    /\ pc' = IF output'.out.kind = "raise" THEN "raised" ELSE "returned"
    /\ UNCHANGED input
    /\ WorkflowUnchanged

NextParse == ParseVerdictCall

SpecParse == InitParse /\ [][NextParse]_vars

----------------------------------------------------------------------------
(* SpecHeuristic: _fallback_evaluate applied to every text of at most MaxContent
   fragments *)

InitHeuristic ==
    /\ WorkflowIdle
    /\ pc = "call"
    /\ input \in Contents
    /\ output = None

FallbackEvaluateCall ==
    /\ pc = "call"
    /\ output' = FallbackEvaluate(input)
    /\ pc' = "returned"
    /\ UNCHANGED input
    /\ WorkflowUnchanged

NextHeuristic == FallbackEvaluateCall

SpecHeuristic == InitHeuristic /\ [][NextHeuristic]_vars

----------------------------------------------------------------------------
(* SpecData: _data_to_verdict applied to decoded objects of every field shape *)

Absent == [t |-> "absent"]

Str1(piece) == PyStr(<<piece>>)

TextGood == <<"G","o","o","d"," ","c","o","v","e","r","a","g","e"," ",
              "o","v","e","r","a","l","l">>
TextExcellent == <<"E","X","C","E","L","L","E","N","T">>
TextFair == <<"F","a","i","r","l","y"," ","o","k">>
TextAcceptable == <<"a","c","c","e","p","t","a","b","l","e">>
TextPoor == <<"P","o","o","r">>
TextPoorButGood == <<"p","o","o","r"," ","s","e","l","e","c","t","o","r","s",","," ",
                     "g","o","o","d"," ","f","l","o","w">>
TextFairNotPoor == <<"f","a","i","r",","," ","n","o","t"," ","p","o","o","r">>
TextNeutral == <<"n","e","e","d","s"," ","w","o","r","k">>

DescribedIssue == PyDict([description |-> Str1("flaky selector")])
UndescribedIssue == PyDict([severity |-> Str1("high")])

IssuesChoices ==
    {Absent, None, PyList(<<>>), PyList(<<Str1("no assertions")>>),
     PyList(<<DescribedIssue>>), PyList(<<UndescribedIssue, DescribedIssue>>),
     PyList(<<DescribedIssue, Str1("plain")>>), PyInt(5),
     PyDict([count |-> PyInt(1)]), Str1("one issue")}

SuggestionsChoices ==
    {Absent, PyList(<<Str1("use getByRole")>>), PyList(<<DescribedIssue>>)}

RecommendationsChoices ==
    {Absent, PyList(<<Str1("add waits"), Str1("add asserts")>>), PyInt(3)}

ScoreChoices ==
    {Absent, None, PyInt(0), PyInt(69), PyInt(70), PyInt(100), PyInt(150),
     PyInt(-5), Str1("85"), PyBool(TRUE)}

VerdictChoices ==
    {Absent, PyStr(TextGood), PyStr(TextExcellent), PyStr(TextFair),
     PyStr(TextAcceptable), PyStr(TextPoor), PyStr(TextPoorButGood),
     PyStr(TextFairNotPoor), PyStr(TextNeutral), PyInt(3)}

PassedChoices == {Absent, PyBool(TRUE), PyBool(FALSE), None}

SummaryChoices == {Absent, Str1("Looks fine")}

\* the dict holding the fields that are present
MakeDict(f) ==
    PyDict([k \in {x \in DOMAIN f : f[x] # Absent} |-> f[k]])

DecodedObjects ==
    {MakeDict([issues |-> i, suggestions |-> sg, recommendations |-> r, score |-> sc,
               verdict |-> v, passed |-> p, summary |-> su]) :
        i \in IssuesChoices, sg \in SuggestionsChoices, r \in RecommendationsChoices,
        sc \in ScoreChoices, v \in VerdictChoices, p \in PassedChoices,
        su \in SummaryChoices}

RawSample == <<Prose, LBrace, RBrace>>

InitData ==
    /\ WorkflowIdle
    /\ pc = "call"
    /\ input \in DecodedObjects
    /\ output = None

DataToVerdictCall ==
    /\ pc = "call"
    /\ output' = DataToVerdict(input, RawSample)
    /\ pc' = IF output'.kind = "raise" THEN "raised" ELSE "returned"
    /\ UNCHANGED input
    /\ WorkflowUnchanged

NextData == DataToVerdictCall

SpecData == InitData /\ [][NextData]_vars

----------------------------------------------------------------------------
(* Spec: the orchestrator's workflows, with the directory evaluation they await *)

MaxFiles == 3      \* most test files discovered under tests/

DefaultThreshold == 70

Thresholds == {0, DefaultThreshold, DefaultThreshold + 1}

ExitCodes == {0, 1}

CleanTest == <<TestCall, OtherText, ExpectCall>>
FragileTest == <<TestCall, LocatorId, WaitForTimeout>>

SampleContents == {CleanTest, FragileTest}

Response70 == <<LBrace, "\"score\":70", RBrace>>
Response69Passed ==
    <<Prose, LBrace, "\"score\":69", Comma, "\"passed\":true", RBrace>>
Response40 == <<FenceJson, Newline, LBrace, "\"score\":40", RBrace, Newline, Fence>>
ResponseString == <<FenceJson, Quote, Prose, Quote, Fence>>
ResponseProse == <<Prose, Prose>>

SampleResponses ==
    {Response70, Response69Passed, Response40, ResponseString, ResponseProse}

WorkflowResult(stage, success, details, judge_verdict) ==
    [stage |-> stage, success |-> success, details |-> details,
     judge_verdict |-> judge_verdict]

ProcessOutput == PyStr(<<"stdout or stderr">>)

\* a number as sum() and >= read it
NumberOf(v) == IF v.t = "bool" THEN (IF v.b THEN 1 ELSE 0) ELSE v.n

RECURSIVE SumScores(_)
SumScores(vs) ==
    IF vs = <<>> THEN 0 ELSE NumberOf(Head(vs).score) + SumScores(Tail(vs))

AllPassed(vs) == \A i \in 1..Len(vs) : Truthy(vs[i].passed)

\* avg_score >= judge_threshold, avg_score = sum / len if verdicts else 0
MeanAtLeast(vs, t) ==
    IF vs = <<>> THEN 0 >= t ELSE SumScores(vs) >= t * Len(vs)

MeanAbove(vs, t) ==
    IF vs = <<>> THEN 0 > t ELSE SumScores(vs) > t * Len(vs)

\* f"{avg_score:.0f}": round half to even
RoundedMean(vs) ==
    IF vs = <<>> THEN 0
    ELSE LET n == Len(vs)
             q == SumScores(vs) \div n
             r == SumScores(vs) % n
         IN  IF 2 * r < n THEN q
             ELSE IF 2 * r > n THEN q + 1
             ELSE IF q % 2 = 0 THEN q ELSE q + 1

JudgeSuccessMeanOnly(vs, t) == MeanAtLeast(vs, t)

JudgeSuccessStrict(vs, t) == AllPassed(vs) /\ MeanAbove(vs, t)

JudgeSuccess(vs, t) == AllPassed(vs) /\ MeanAtLeast(vs, t)

JudgeResult(vs, t) ==
    WorkflowResult("judge", JudgeSuccess(vs, t),
                   PyStr(<<"Evaluated ", ToString(Len(vs)), " tests. Average score: ",
                           ToString(RoundedMean(vs)), "/100">>),
                   IF vs # <<>> THEN vs[1] ELSE None)

\* where control goes when workflow_plan_generate_judge returns
AfterReturn == IF mode = "full" THEN "full_check" ELSE "done"

Init ==
    /\ pc = "planner"
    /\ mode \in {"pgj", "full"}
    /\ threshold \in Thresholds
    /\ hasSdk \in BOOLEAN
    /\ dirExists \in BOOLEAN
    /\ files \in IF dirExists THEN SeqsUpTo(SampleContents, MaxFiles) ELSE {<<>>}
    /\ verdicts = <<>>
    /\ service = <<>>
    /\ results = <<>>
    /\ invoked = <<>>
    /\ input = None
    /\ output = None

ExitFailedNever(returncode) == returncode < 0

\* planner_result.returncode != 0, generator_result.returncode != 0
ExitFailed(returncode) == returncode # 0

\* Step 1: Planner
RunPlanner ==
    /\ pc = "planner"
    /\ \E returncode \in ExitCodes :
        /\ invoked' = Append(invoked, "planner")
        /\ results' = Append(results, WorkflowResult("planner", returncode = 0,
                                                     ProcessOutput, None))
        /\ pc' = IF ExitFailed(returncode) THEN AfterReturn ELSE "generator"
    /\ UNCHANGED <<mode, threshold, hasSdk, dirExists, files, verdicts, service,
                   input, output>>

\* Step 2: Generator
RunGenerator ==
    /\ pc = "generator"
    /\ \E returncode \in ExitCodes :
        /\ invoked' = Append(invoked, "generator")
        /\ results' = Append(results, WorkflowResult("generator", returncode = 0,
                                                     ProcessOutput, None))
        /\ pc' = IF ExitFailed(returncode) THEN AfterReturn ELSE "judge"
    /\ UNCHANGED <<mode, threshold, hasSdk, dirExists, files, verdicts, service,
                   input, output>>

\* Step 3: Judge, tests directory present: evaluate_directory is awaited
JudgeStart ==
    /\ pc = "judge"
    /\ dirExists
    /\ pc' = "evaluate"
    /\ UNCHANGED <<mode, threshold, hasSdk, dirExists, files, verdicts, service,
                   results, invoked, input, output>>

JudgeNoDirectorySucceeds ==
    /\ pc = "judge"
    /\ ~dirExists
    /\ results' = Append(results, WorkflowResult("judge", TRUE,
                                                 PyStr(<<"No tests directory found">>),
                                                 None))
    /\ pc' = AfterReturn
    /\ UNCHANGED <<mode, threshold, hasSdk, dirExists, files, verdicts, service,
                   invoked, input, output>>

\* Step 3: Judge, no tests directory
JudgeNoDirectory ==
    /\ pc = "judge"
    /\ ~dirExists
    /\ results' = Append(results, WorkflowResult("judge", FALSE,
                                                 PyStr(<<"No tests directory found">>),
                                                 None))
    /\ pc' = AfterReturn
    /\ UNCHANGED <<mode, threshold, hasSdk, dirExists, files, verdicts, service,
                   invoked, input, output>>

\* what the service call of one evaluate_test does
ServiceOutcomes ==
    {[kind |-> "raise"], [kind |-> "empty"]}
    \cup {[kind |-> "text", text |-> r] : r \in SampleResponses}

EvaluateWithServiceNoEmptyCheck(content, outcome) ==
    IF outcome.kind = "raise" THEN FallbackEvaluate(content)
    ELSE IF ParseVerdict(IF outcome.kind = "empty" THEN <<>> ELSE outcome.text).out.kind
            = "raise"
    THEN FallbackEvaluate(content)
    ELSE ParseVerdict(IF outcome.kind = "empty" THEN <<>> ELSE outcome.text).out.val

\* evaluate_test(test_content) with HAS_SDK set, given the service call's outcome
EvaluateWithService(content, outcome) ==
    IF outcome.kind = "raise" THEN FallbackEvaluate(content)
    ELSE IF outcome.kind = "empty" THEN FallbackEvaluate(content)
    ELSE IF ParseVerdict(outcome.text).out.kind = "raise" THEN FallbackEvaluate(content)
    ELSE ParseVerdict(outcome.text).out.val

\* evaluate_directory's loop body: evaluate_file -> evaluate_test for the next file
EvaluateFile ==
    /\ pc = "evaluate"
    /\ Len(verdicts) < Len(files)
    /\ LET content == files[Len(verdicts) + 1]
       IN  \/ /\ ~hasSdk
              /\ verdicts' = Append(verdicts, FallbackEvaluate(content))
              /\ service' = Append(service, [calls |-> 0, outcome |-> "none"])
           \/ /\ hasSdk
              /\ \E outcome \in ServiceOutcomes :
                    /\ verdicts' = Append(verdicts,
                                          EvaluateWithService(content, outcome))
                    /\ service' = Append(service, [calls |-> 1,
                                                   outcome |-> outcome.kind])
    /\ UNCHANGED <<pc, mode, threshold, hasSdk, dirExists, files, results, invoked,
                   input, output>>

\* evaluate_directory has returned: aggregate and record the judge stage
JudgeAggregate ==
    /\ pc = "evaluate"
    /\ Len(verdicts) = Len(files)
    /\ results' = Append(results, JudgeResult(verdicts, threshold))
    /\ pc' = AfterReturn
    /\ UNCHANGED <<mode, threshold, hasSdk, dirExists, files, verdicts, service,
                   invoked, input, output>>

JudgePresentOnly(rs) == \E i \in 1..Len(rs) : rs[i].stage = "judge"

\* next((r for r in results if r.stage == "judge"), None) found and successful
JudgePassed(rs) ==
    /\ \E i \in 1..Len(rs) : rs[i].stage = "judge"
    /\ rs[CHOOSE i \in 1..Len(rs) :
             rs[i].stage = "judge" /\ \A k \in 1..(i - 1) : rs[k].stage # "judge"].success

\* workflow_full after workflow_plan_generate_judge returned
FullCheck ==
    /\ pc = "full_check"
    /\ pc' = IF JudgePassed(results) THEN "healer" ELSE "done"
    /\ UNCHANGED <<mode, threshold, hasSdk, dirExists, files, verdicts, service,
                   results, invoked, input, output>>

\* Step 4: Healer
RunHealer ==
    /\ pc = "healer"
    /\ \E returncode \in ExitCodes :
        /\ invoked' = Append(invoked, "healer")
        /\ results' = Append(results, WorkflowResult("healer", returncode = 0,
                                                     ProcessOutput, None))
    /\ pc' = "done"
    /\ UNCHANGED <<mode, threshold, hasSdk, dirExists, files, verdicts, service,
                   input, output>>

Next ==
    \/ RunPlanner
    \/ RunGenerator
    \/ JudgeStart
    \/ JudgeNoDirectory
    \/ EvaluateFile
    \/ JudgeAggregate
    \/ FullCheck
    \/ RunHealer

Spec == Init /\ [][Next]_vars

----------------------------------------------------------------------------
(* Properties of the workflows (Spec) *)

Ran(agent) == \E i \in 1..Len(invoked) : invoked[i] = agent

Recorded(stage) == \E i \in 1..Len(results) : results[i].stage = stage

EntryOf(stage) == results[CHOOSE i \in 1..Len(results) : results[i].stage = stage]

JudgeBegun == pc = "evaluate" \/ verdicts # <<>> \/ Recorded("judge")

Returned == pc = "done" \/ pc = "full_check"

\* C1: Gate 1. The generator is run only after a planner entry with success, the
\* judge stage is begun only after a generator entry with success; once the planner
\* entry records a failure the run has returned with exactly that one entry and
\* nothing else was run, and once the generator entry records a failure the run has
\* returned with exactly two entries and neither judge nor healer was run.
C1_Gate1 ==
    /\ Ran("generator") => Len(results) >= 1 /\ results[1].stage = "planner"
                           /\ results[1].success
    /\ JudgeBegun \/ pc = "judge" =>
           Len(results) >= 2 /\ results[2].stage = "generator" /\ results[2].success
    /\ Len(results) >= 1 /\ ~results[1].success =>
           /\ Returned
           /\ Len(results) = 1
           /\ invoked = <<"planner">>
           /\ ~JudgeBegun
    /\ Len(results) >= 2 /\ ~results[2].success /\ results[2].stage = "generator" =>
           /\ Returned
           /\ Len(results) = 2
           /\ invoked = <<"planner", "generator">>
           /\ ~JudgeBegun

C1_PlanFailedWitness ==
    /\ mode = "full"
    /\ pc = "done"
    /\ Len(results) = 1
    /\ results[1].stage = "planner"
    /\ ~results[1].success

\* C2: Gate 2. The healer is run only on a judge entry recorded with success; a
\* finished workflow_full has run the healer exactly when the judge entry is
\* successful, which, with a tests directory, is exactly when every verdict passed and
\* the mean of the scores (0 without verdicts) is at least the threshold; the other
\* workflow never runs the healer.
C2_Gate2 ==
    /\ Ran("healer") => Recorded("judge") /\ EntryOf("judge").success /\ mode = "full"
    /\ mode = "full" /\ pc = "done" =>
           /\ Ran("healer") <=> (Recorded("judge") /\ EntryOf("judge").success)
           /\ Recorded("judge") /\ dirExists =>
                  (Ran("healer") <=>
                       /\ \A i \in 1..Len(verdicts) : Truthy(verdicts[i].passed)
                       /\ IF verdicts = <<>> THEN 0 >= threshold
                          ELSE SumScores(verdicts) >= threshold * Len(verdicts))
           /\ Ran("healer") <=> results[Len(results)].stage = "healer"

\* the mean equals the threshold, every verdict passed, and the healer ran
C2_BoundaryWitness ==
    /\ mode = "full"
    /\ pc = "done"
    /\ Len(verdicts) >= 1
    /\ threshold > 0
    /\ SumScores(verdicts) = threshold * Len(verdicts)
    /\ Ran("healer")
    /\ results[Len(results)].stage = "healer"

\* C3: with a tests directory, the judge entry's success flag is: every verdict has a
\* true passed, and the mean of the scores (0 without verdicts) is at least the
\* threshold; one verdict that did not pass makes it false whatever the threshold.
C3_JudgeAggregation ==
    Recorded("judge") /\ dirExists =>
        /\ EntryOf("judge").success <=>
               /\ \A i \in 1..Len(verdicts) : Truthy(verdicts[i].passed)
               /\ IF Len(verdicts) = 0 THEN 0 >= threshold
                  ELSE SumScores(verdicts) >= threshold * Len(verdicts)
        /\ (\E i \in 1..Len(verdicts) : ~Truthy(verdicts[i].passed)) =>
               ~EntryOf("judge").success

\* scores 100, 70, 40 with only the third not passed: mean 70 meets the threshold, and
\* the judge entry is unsuccessful
C3_ExampleWitness ==
    /\ Recorded("judge")
    /\ threshold = DefaultThreshold
    /\ Len(verdicts) = 3
    /\ verdicts[1].score = PyInt(100) /\ Truthy(verdicts[1].passed)
    /\ verdicts[2].score = PyInt(70) /\ Truthy(verdicts[2].passed)
    /\ verdicts[3].score = PyInt(40) /\ ~Truthy(verdicts[3].passed)
    /\ ~EntryOf("judge").success

\* C10: the service is called at most once per file; a call that raises or returns
\* an empty response leaves the heuristic verdict of that file's text; and the
\* directory evaluation that has returned holds one verdict per discovered file.
C10_ServiceFallback ==
    /\ Len(service) = Len(verdicts)
    /\ Len(verdicts) <= Len(files)
    /\ \A i \in 1..Len(service) :
           /\ service[i].calls <= 1
           /\ service[i].outcome \in {"raise", "empty"} =>
                  verdicts[i] = FallbackEvaluate(files[i])
           /\ ~hasSdk => service[i].calls = 0 /\ verdicts[i] = FallbackEvaluate(files[i])
    /\ Recorded("judge") /\ dirExists => Len(verdicts) = Len(files)

\* the call for the first file raised, the call for the second returned nothing, the
\* third was parsed, and the judge stage was recorded over all three
C10_FailureWitness ==
    /\ Recorded("judge")
    /\ Len(files) = 3
    /\ Len(verdicts) = 3
    /\ service[1].outcome = "raise"
    /\ service[2].outcome = "empty"
    /\ service[3].outcome = "text"
    /\ verdicts[1] = FallbackEvaluate(files[1])
    /\ verdicts[3].score = PyInt(70)

\* C11: without a tests directory the directory evaluation is never entered (no
\* verdict, no service call), the judge entry that follows a successful planner and
\* generator has success false and no verdict attached, it is the last entry, the run
\* has returned, and the healer is never run.
C11_MissingDirectory ==
    ~dirExists =>
        /\ pc # "evaluate"
        /\ verdicts = <<>>
        /\ service = <<>>
        /\ ~Ran("healer")
        /\ pc # "healer"
        /\ Recorded("judge") =>
               /\ Len(results) = 3
               /\ results[1].success /\ results[2].success
               /\ results[3].stage = "judge"
               /\ ~results[3].success
               /\ results[3].judge_verdict = None
               /\ invoked = <<"planner", "generator">>
               /\ Returned

\* workflow_full has returned three entries, the last the failed judge entry
C11_MissingDirectoryWitness ==
    /\ mode = "full"
    /\ pc = "done"
    /\ ~dirExists
    /\ Len(results) = 3
    /\ results[1].success /\ results[2].success
    /\ results[3].stage = "judge"
    /\ ~results[3].success
    /\ results[3].judge_verdict = None
    /\ invoked = <<"planner", "generator">>

StageOrder == <<"planner", "generator", "judge", "healer">>

\* the list is a prefix of the stage order, only its last entry may be a failure, and
\* only the judge entry carries a verdict
ResultsShape ==
    /\ Len(results) <= Len(StageOrder)
    /\ \A i \in 1..Len(results) :
           /\ results[i].stage = StageOrder[i]
           /\ i < Len(results) => results[i].success
           /\ results[i].judge_verdict # None => results[i].stage = "judge"

\* a step leaves the list alone or appends one entry to it
ResultsAppendOnly ==
    \/ results' = results
    \/ /\ Len(results') = Len(results) + 1
       /\ SubSeq(results', 1, Len(results)) = results

\* C12: at every point of every run the result list is a prefix of planner,
\* generator, judge, healer (each stage at most once), every entry but the last has
\* success true, no entry but the judge entry carries a verdict, and every step only
\* appends to the list.
C12_ResultSequenceShape == []ResultsShape /\ [][ResultsAppendOnly]_vars

\* a full run of four entries, the judge entry carrying a verdict
C12_FullRunWitness ==
    /\ mode = "full"
    /\ pc = "done"
    /\ Len(results) = 4
    /\ results[3].judge_verdict # None
    /\ results[4].stage = "healer"
    /\ ~results[4].success

----------------------------------------------------------------------------
(* Properties of _parse_verdict (SpecParse) *)

\* C4: _parse_verdict returns a JudgeVerdict for every response; no exception leaves
\* it.
C4_ParserTotal ==
    pc # "call" => pc = "returned" /\ output.out.kind = "ok"

NoBrace(r) == \A i \in 1..Len(r) : r[i] # LBrace

IsDegraded(v) ==
    /\ v.score = PyInt(0)
    /\ v.passed = PyBool(FALSE)
    /\ v.issues.t = "list" /\ Len(v.issues.l) = 1
    /\ v.suggestions = PyList(<<>>)

\* C5: for a response without any '{', fenced or not, _parse_verdict returns a
\* verdict with score 0, passed false, exactly one issue and no suggestions.
C5_NoBraceDegraded ==
    pc # "call" /\ NoBrace(input) =>
        output.out.kind = "ok" /\ IsDegraded(output.out.val)

NoJsonFence(r) == \A i \in 1..Len(r) : r[i] # FenceJson

\* some stretch of r, from a '{' to a '}', is the text of a well-formed object
ContainsObject(r) ==
    \E i \in 1..Len(r) : \E j \in i..Len(r) :
        /\ r[i] = LBrace
        /\ r[j] = RBrace
        /\ JsonLoads(SubSeq(r, i, j)).kind = "ok"

\* C9: for a response without a json fence that contains a well-formed object amid
\* arbitrary prose, exactly one text is handed to json.loads, and it runs from the
\* first '{' of the response to the first '}' at which the brace depth counted from
\* there is back to zero.
C9_BalancedScanExtracts ==
    pc # "call" /\ NoJsonFence(input) /\ ContainsObject(input) =>
        /\ Len(output.loads) = 1
        /\ \E b \in 1..Len(input) : \E e \in b..Len(input) :
               /\ input[b] = LBrace
               /\ \A k \in 1..(b - 1) : input[k] # LBrace
               /\ input[e] = RBrace
               /\ BraceCount(input, b, e) = 0
               /\ \A k \in b..(e - 1) : BraceCount(input, b, k) > 0
               /\ output.loads[1] = SubSeq(input, b, e)

----------------------------------------------------------------------------
(* Properties of _data_to_verdict (SpecData) *)

\* C6: the score of every verdict returned is an integer within 0..100.
C6_ScoreInRange ==
    pc = "returned" =>
        /\ output.val.score.t = "int"
        /\ output.val.score.n >= 0
        /\ output.val.score.n <= 100

ScoreAbsentOrZero(data) ==
    "score" \notin DOMAIN data.d \/ data.d["score"] = PyInt(0)

\* the score the keyword table gives each verdict text of VerdictChoices
ExpectedInference(data) ==
    IF "verdict" \notin DOMAIN data.d THEN 50
    ELSE CASE data.d["verdict"] = PyStr(TextGood) -> 85
           [] data.d["verdict"] = PyStr(TextExcellent) -> 85
           [] data.d["verdict"] = PyStr(TextPoorButGood) -> 85
           [] data.d["verdict"] = PyStr(TextFair) -> 70
           [] data.d["verdict"] = PyStr(TextAcceptable) -> 70
           [] data.d["verdict"] = PyStr(TextFairNotPoor) -> 70
           [] data.d["verdict"] = PyStr(TextPoor) -> 40
           [] data.d["verdict"] = PyStr(TextNeutral) -> 50

\* C8: for an object whose score field is absent or zero, the verdict returned has
\* the score the ordered keyword table gives the lower-cased verdict text (85 for
\* excellent/good, else 70 for fair/acceptable, else 40 for poor, else 50), and
\* without a passed field its passed is score >= 70.
C8_ScoreInference ==
    pc = "returned" /\ ScoreAbsentOrZero(input) =>
        /\ output.val.score = PyInt(ExpectedInference(input))
        /\ "passed" \notin DOMAIN input.d =>
               output.val.passed = PyBool(ExpectedInference(input) >= 70)

\* no score field, verdict "Good coverage overall": score 85, passed true
C8_GoodCoverageWitness ==
    /\ pc = "returned"
    /\ input = PyDict([verdict |-> PyStr(TextGood)])
    /\ output.val.score = PyInt(85)
    /\ output.val.passed = PyBool(TRUE)

----------------------------------------------------------------------------
(* Properties of _fallback_evaluate (SpecHeuristic) *)

\* C7: the verdict of the heuristic evaluator has a score within 0..100 and passed
\* equal to score >= 70, score being the one stored in the verdict.
C7_HeuristicBounds ==
    pc = "returned" =>
        /\ output.score.t = "int"
        /\ output.score.n >= 0
        /\ output.score.n <= 100
        /\ output.passed = PyBool(output.score.n >= 70)

\* all four rules triggered: 100 - 20 - 15 - 30 - 5
C7_AllRulesWitness ==
    /\ pc = "returned"
    /\ FragileSelector(input) /\ HardcodedWait(input)
    /\ NoAssertion(input) /\ Ungrouped(input)
    /\ output.score = PyInt(30)
    /\ output.passed = PyBool(FALSE)

====
